---- MODULE Spec2Model ----
(***************************************************************************)
(* The session state machine of the learning application (src/App.tsx),    *)
(* together with the external collaborators it talks to: the content       *)
(* generation gateway (src/services/geminiService.ts), the auth provider   *)
(* and the per-user document store (src/services/firebase.ts).             *)
(*                                                                         *)
(* One action models one event-loop turn: a click handler up to its first  *)
(* await, the continuation of a handler after an await settles, or a       *)
(* listener callback.  The effects React runs after the resulting render   *)
(* (progress sync, audio element set-up and clean-up) are part of the      *)
(* action that caused the render.                                          *)
(***************************************************************************)
EXTENDS Integers, Sequences, FiniteSets, TLC

(***************************************************************************)
(* Bounds of the model.                                                    *)
(***************************************************************************)
\* Event-loop turns (clicks, settled calls, callbacks, clock ticks) of a run.
MaxEvents == 14
\* The same, of a run that starts from a returning user's snapshot.
MaxReturningEvents == 6
\* The same, of a first visit in demo mode spent generating courses.
MaxGeneratingEvents == 17
\* Date.now() ranges over 1..MaxTime.
MaxTime == 4
\* Courses a library holds at most.
MaxLibrary == 3
\* Gateway generation requests in flight at most.
MaxRequests == 2
\* Document-store calls (setDoc, deleteDoc) in flight at most.
MaxWrites == 1
\* Library fetches (getDocs) of the auth listener in flight at most.
MaxFetches == 1
\* Tutor replies pending at most.
MaxChats == 2
\* Audio overviews a snapshot may carry and still fit the local storage quota.
StorageQuota == 1
\* Bytes of PCM data handed to pcmToWav.
MaxPcmBytes == 3
\* Items of a list the model returns (besides the full list of pillars).
MaxItems == 2

(***************************************************************************)
(* Values.                                                                 *)
(***************************************************************************)
\* null / undefined of an object-typed field.
Null == [null |-> TRUE]
\* null of activeCourseId (course ids are timestamps, all >= 1).
NoId == 0
\* null of the error field (error messages are non-empty).
NoError == ""
\* undefined audioData (generateModuleAudio never returns an empty string).
NoAudio == [undefined |-> TRUE]

AUTH == "AUTH"
DASHBOARD == "DASHBOARD"
INPUT == "INPUT"
PILLARS == "PILLARS"
PATHS == "PATHS"
CURRICULUM == "CURRICULUM"
AppStep == {AUTH, DASHBOARD, INPUT, PILLARS, PATHS, CURRICULUM}

\* The subject the user types, the user the provider knows, the audio blob.
Subjects == {"Quantum Physics"}
TheUser == [id |-> "uid"]
\* The user signInWithGoogle fabricates when no provider is configured.
MockUser == [id |-> "mock-user"]
\* What the generative model returns: pillars, paths and, per path, the
\* sub-lesson titles of its curriculum.
GeneratedPillars == <<[id |-> 1, title |-> "Wave Mechanics"]>>
GeneratedPaths == <<[id |-> 1, title |-> "Intro to Superposition"]>>
GeneratedSubLessons == <<"Lesson 1", "Lesson 2">>

EmptyFeedback == [i \in {} |-> "helpful"]

PillarsError == "Failed to generate learning pillars. Please try again."
PathsError == "Failed to generate lesson paths."
CurriculumError == "Failed to generate curriculum."
PillarNotSelected == "Pillar not selected"

INITIAL_STATE ==
  [ step |-> AUTH,
    user |-> Null,
    library |-> <<>>,
    activeCourseId |-> NoId,
    subject |-> "",
    selectedPillar |-> Null,
    selectedPath |-> Null,
    curriculum |-> Null,
    completedSubLessons |-> <<>>,
    subLessonFeedback |-> EmptyFeedback,
    pillars |-> <<>>,
    paths |-> <<>>,
    chatHistory |-> <<>>,
    isLoading |-> FALSE,
    error |-> NoError ]

VARIABLES
  state,          \* the AppState held by useState
  auth,           \* firebase.ts: auth is non-null
  db,             \* firebase.ts: db is non-null
  fbUser,         \* the user the auth provider has signed in, or Null
  authEvent,      \* a notification of the onAuthStateChanged listener is due
  isAuthLoading,  \* App.tsx: isAuthLoading
  loginPending,   \* signInWithGoogle() has not settled
  logoutPending,  \* logoutUser() has not settled
  fetches,        \* getDocs() calls of the auth listener that have not settled
  requests,       \* gateway generation calls that have not settled
  remote,         \* the user's course documents in the document store
  writes,         \* setDoc / deleteDoc calls that have not settled, oldest first
  audioRef,       \* audioRef.current is non-null
  isLoadingAudio, \* App.tsx: isLoadingAudio (a generateModuleAudio call is pending)
  audioCall,      \* the script the pending generateModuleAudio call was given
  storage,        \* localStorage[STORAGE_KEY]: the last snapshot written, or Null
  chatSession,    \* geminiService.ts: chatSession, the tutor session or Null
  tutorCalls,     \* sendMessageToTutor calls whose reply is pending
  now,            \* what Date.now() returns
  turns,          \* event-loop turns the run has left
  call,           \* a pure function of the program and its arguments
  result          \* what the function returned or threw, once it was called

appVars == <<state, auth, db, fbUser, authEvent, isAuthLoading, loginPending,
             logoutPending, fetches, requests, remote, writes, audioRef,
             isLoadingAudio, audioCall, storage, chatSession, tutorCalls, now, turns>>

vars == <<appVars, call, result>>

(***************************************************************************)
(* Helpers on sequences.                                                   *)
(***************************************************************************)
Range(seq) == {seq[i] : i \in DOMAIN seq}

\* library.findIndex(c => c.id === id), 1-based; 0 stands for -1.
FindIndex(library, id) ==
  IF \E i \in DOMAIN library : library[i].id = id
  THEN CHOOSE i \in DOMAIN library :
         /\ library[i].id = id
         /\ \A j \in DOMAIN library : library[j].id = id => i <= j
  ELSE 0

(***************************************************************************)
(* The document store.                                                     *)
(***************************************************************************)
\* getDocs + forEach + library.sort((a, b) => b.lastAccessed - a.lastAccessed):
\* the documents come in document-id order and the sort is stable.
RECURSIVE SortByLastAccessed(_)
SortByLastAccessed(docs) ==
  IF docs = {} THEN <<>>
  ELSE LET first == CHOOSE c \in docs :
                      \A d \in docs :
                        \/ c.lastAccessed > d.lastAccessed
                        \/ c.lastAccessed = d.lastAccessed /\ c.id <= d.id
       IN <<first>> \o SortByLastAccessed(docs \ {first})

\* setDoc(ref, course): the document is replaced.
SetDoc(docs, course) == {d \in docs : d.id # course.id} \cup {course}

\* setDoc(ref, course, {merge: true}): the fields written replace the stored
\* ones, map-valued fields are merged key by key.
MergeDoc(docs, course) ==
  IF \E d \in docs : d.id = course.id
  THEN LET old == CHOOSE d \in docs : d.id = course.id
           feedback == [i \in DOMAIN old.subLessonFeedback \cup DOMAIN course.subLessonFeedback |->
                          IF i \in DOMAIN course.subLessonFeedback
                          THEN course.subLessonFeedback[i]
                          ELSE old.subLessonFeedback[i]]
           audio == IF course.curriculum.audioData # NoAudio
                    THEN course.curriculum.audioData
                    ELSE old.curriculum.audioData
       IN SetDoc(docs, [course EXCEPT !.subLessonFeedback = feedback,
                                      !.curriculum.audioData = audio])
  ELSE SetDoc(docs, course)

\* deleteDoc(ref)
DeleteDoc(docs, id) == {d \in docs : d.id # id}

\* The effect of a settled call on the store.
ApplyWrite(docs, w) ==
  CASE w.op = "set" -> SetDoc(docs, w.course)
    [] w.op = "merge" -> MergeDoc(docs, w.course)
    [] w.op = "delete" -> DeleteDoc(docs, w.id)

(***************************************************************************)
(* Effects run after a render.                                             *)
(***************************************************************************)
\* App.tsx 266-269: the shallow change detector of the progress sync.
hasChanges(activeCourse, s) ==
  \/ Len(activeCourse.completedSubLessons) # Len(s.completedSubLessons)
  \/ Cardinality(DOMAIN activeCourse.subLessonFeedback)
       # Cardinality(DOMAIN s.subLessonFeedback)
  \/ /\ s.curriculum # Null
     /\ s.curriculum.audioData # NoAudio
     /\ activeCourse.curriculum.audioData = NoAudio

\* App.tsx 259-271: the sync has something to write.
SyncFires(s) ==
  /\ s.activeCourseId # NoId
  /\ Len(s.library) > 0
  /\ FindIndex(s.library, s.activeCourseId) # 0
  /\ hasChanges(s.library[FindIndex(s.library, s.activeCourseId)], s)

\* A sync that copies the progress but does not stamp the entry.
updatedCourseUnstamped(s) ==
  LET activeCourse == s.library[FindIndex(s.library, s.activeCourseId)]
  IN [activeCourse EXCEPT
        !.completedSubLessons = s.completedSubLessons,
        !.subLessonFeedback = s.subLessonFeedback,
        !.curriculum = IF s.curriculum # Null THEN s.curriculum ELSE @]

\* App.tsx 272-278
updatedCourse(s) ==
  LET activeCourse == s.library[FindIndex(s.library, s.activeCourseId)]
  IN [activeCourse EXCEPT
        !.completedSubLessons = s.completedSubLessons,
        !.subLessonFeedback = s.subLessonFeedback,
        !.curriculum = IF s.curriculum # Null THEN s.curriculum ELSE @,
        !.lastAccessed = now]

\* App.tsx 281-285: the library after the sync effect ran on state s.
SyncLibrary(s) ==
  IF SyncFires(s)
  THEN [s EXCEPT !.library[FindIndex(s.library, s.activeCourseId)] = updatedCourse(s)]
  ELSE s

\* App.tsx 288-291: the remote write the sync effect issues on state s.
SyncWrites(s) ==
  IF SyncFires(s) /\ s.user # Null /\ db
  THEN <<[op |-> "merge", id |-> s.activeCourseId, course |-> updatedCourse(s)]>>
  ELSE <<>>

audioDataOf(s) == IF s.curriculum = Null THEN NoAudio ELSE s.curriculum.audioData

\* App.tsx 295: the sync effect runs when one of its dependencies changed.
\* assigned: the handler stored a new completedSubLessons or subLessonFeedback.
SyncRuns(s, assigned) == assigned \/ audioDataOf(s) # audioDataOf(state)

\* App.tsx 248-255 and 598-606: audioRef.current after the render of s.  The
\* clean-up of the step effect runs first, then the audio set-up.
AudioRefAfter(s, ref) ==
  LET cleaned == IF s.step # state.step THEN FALSE ELSE ref
  IN IF s.curriculum # state.curriculum /\ audioDataOf(s) # NoAudio /\ ~cleaned
     THEN TRUE
     ELSE cleaned

\* The audio overviews a state carries: the session's and the library's.
AudioBlobs(s) ==
  (IF audioDataOf(s) # NoAudio THEN 1 ELSE 0)
    + Cardinality({k \in DOMAIN s.library : s.library[k].curriculum.audioData # NoAudio})

\* A snapshot that keeps the thinking placeholder.
stateToSaveWithPlaceholders(s) == [s EXCEPT !.isLoading = FALSE, !.error = NoError]

\* App.tsx 299-305
stateToSave(s) ==
  [s EXCEPT !.chatHistory = SelectSeq(s.chatHistory, LAMBDA m : ~m.isThinking),
            !.isLoading = FALSE,
            !.error = NoError]

\* App.tsx 307-316: localStorage.setItem stores the snapshot, or throws when
\* it exceeds the quota and the previous snapshot stays.
StorageAfter(s, saved) ==
  IF AudioBlobs(stateToSave(s)) <= StorageQuota THEN stateToSave(s) ELSE saved

\* App.tsx 147-161: the initial state, the snapshot merged over the defaults.
Restore(saved) ==
  IF saved = Null
  THEN INITIAL_STATE
  ELSE [f \in DOMAIN INITIAL_STATE |->
          IF f \in DOMAIN saved THEN saved[f] ELSE INITIAL_STATE[f]]

\* setState(s) followed by the render and its effects; more: document-store
\* calls the handler itself issues after the setState.  The snapshot effect
\* runs after the render of s and again after the render the sync caused.
Commit(s, assigned, ref, more) ==
  /\ state' = (IF SyncRuns(s, assigned) THEN SyncLibrary(s) ELSE s)
  /\ writes' = writes \o more \o (IF SyncRuns(s, assigned) THEN SyncWrites(s) ELSE <<>>)
  /\ Len(writes') <= MaxWrites
  /\ audioRef' = AudioRefAfter(s, ref)
  /\ storage' = StorageAfter(state', StorageAfter(s, storage))

(***************************************************************************)
(* Initial states.  The App starts from INITIAL_STATE overlaid with the    *)
(* snapshot found in local storage (App.tsx 147-161): none on a first      *)
(* visit, the last state of the previous visit otherwise.                  *)
(***************************************************************************)
\* App.tsx 639-649: the script read out for a curriculum.
Script(curriculum) == [module |-> curriculum.pathTitle, lessons |-> curriculum.subLessons]

\* geminiService.ts 195-214: the speech generated for a script, base64 PCM.
Base64Audio(script) == [pcm |-> script]

\* geminiService.ts 177-188: the curriculum generated for a path, no audio yet.
GeneratedCurriculum(path) ==
  [pathTitle |-> path.title, subLessons |-> GeneratedSubLessons, audioData |-> NoAudio]

\* App.tsx 464-475: the course created at time t from the captured selection.
SavedCourse(t, subject, pillar, path, curriculum) ==
  [id |-> t,
   subject |-> subject,
   pillar |-> pillar,
   path |-> path,
   curriculum |-> curriculum,
   completedSubLessons |-> <<>>,
   subLessonFeedback |-> EmptyFeedback,
   createdAt |-> t,
   lastAccessed |-> t]

\* App.tsx 490-495
WelcomeMessage(path, curriculum) ==
  [id |-> "welcome", role |-> "model",
   text |-> <<"Hi! I'm your tutor for ", path.title>>,
   isThinking |-> FALSE]

\* The curricula of a returning user's courses: the first has one lesson,
\* the second has two and its overview was listened to.
StoredCurriculum(t) ==
  LET curriculum == [GeneratedCurriculum(GeneratedPaths[1]) EXCEPT
                       !.subLessons = SubSeq(GeneratedSubLessons, 1, t)]
  IN IF t = 2
     THEN [curriculum EXCEPT !.audioData = Base64Audio(Script(curriculum))]
     ELSE curriculum

\* The two courses of a returning user, created at times 1 and 2.
StoredCourse(t) ==
  SavedCourse(t, "Quantum Physics", GeneratedPillars[1], GeneratedPaths[1],
              StoredCurriculum(t))

\* The snapshot a returning user left: both courses were generated, the
\* second one last, and the user went back to the dashboard.
ReturningSnapshot(user) ==
  [INITIAL_STATE EXCEPT
     !.step = DASHBOARD,
     !.user = user,
     !.library = <<StoredCourse(2), StoredCourse(1)>>,
     !.subject = "Quantum Physics",
     !.selectedPillar = GeneratedPillars[1],
     !.selectedPath = GeneratedPaths[1],
     !.pillars = GeneratedPillars,
     !.paths = GeneratedPaths,
     !.chatHistory = <<WelcomeMessage(GeneratedPaths[1], GeneratedCurriculum(GeneratedPaths[1]))>>]

\* The same snapshot as a version of the App without sub-lesson feedback
\* wrote it.
OlderSnapshot(user) ==
  [f \in DOMAIN ReturningSnapshot(user) \ {"subLessonFeedback"} |->
     ReturningSnapshot(user)[f]]

\* geminiService.ts 17: the prompt asks for exactly 30 pillars.
PillarCount == 30

\* The App's runs do not follow a single function call.
NoCall == [op |-> "none"]

NotCalled == [done |-> FALSE]

Idle == call = NoCall /\ result = NotCalled

\* What a start has in common: nothing is in flight.
\* App.tsx 180-187: with a provider the listener is registered and will be
\* told the current user; without one isAuthLoading is dropped at once.
Mounted ==
  /\ authEvent = auth
  /\ isAuthLoading = auth
  /\ loginPending = FALSE
  /\ logoutPending = FALSE
  /\ fetches = 0
  /\ requests = {}
  /\ writes = <<>>
  /\ audioRef = FALSE
  /\ isLoadingAudio = FALSE
  /\ audioCall = Null
  /\ tutorCalls = 0

\* A first visit.  firebase.ts 31-41: a provider is configured, or it is
\* not (demo mode), or getFirestore threw after getAuth succeeded.
FirstVisit ==
  /\ auth \in BOOLEAN
  /\ db \in BOOLEAN
  /\ db => auth
  /\ storage = Null
  /\ state = Restore(storage)
  /\ chatSession = Null
  /\ fbUser = Null
  /\ remote = {}
  /\ now = 1
  /\ Mounted

Init == FirstVisit /\ turns = MaxEvents /\ Idle

\* A first visit in demo mode.
InitGenerating == FirstVisit /\ ~auth /\ turns = MaxGeneratingEvents /\ Idle

\* A returning user, with a provider configured or in demo mode.
InitReturning ==
  /\ auth \in BOOLEAN
  /\ db = auth
  /\ storage = OlderSnapshot(IF auth THEN TheUser ELSE MockUser)
  /\ state = Restore(storage)
  /\ chatSession = Null
  /\ fbUser = (IF auth THEN TheUser ELSE Null)
  /\ remote = (IF db THEN {StoredCourse(2), StoredCourse(1)} ELSE {})
  /\ now = 3
  /\ turns = MaxReturningEvents
  /\ Mounted
  /\ Idle

\* One event-loop turn of the run's budget.
Turn == turns > 0 /\ turns' = turns - 1 /\ UNCHANGED <<call, result>>

(***************************************************************************)
(* What the render offers the user.                                        *)
(***************************************************************************)
\* App.tsx 772, 781: the sign-in button
AuthView == state.step = AUTH /\ ~isAuthLoading
\* App.tsx 813
DashboardView == state.step = DASHBOARD /\ state.user # Null
\* App.tsx 911, 935: the subject form with its submit button enabled
InputView == state.step = INPUT
\* App.tsx 958
LoadingScreen == state.isLoading /\ state.step # INPUT
\* App.tsx 972
PillarsView == ~state.isLoading /\ state.step = PILLARS
\* App.tsx 1011
PathsView == ~state.isLoading /\ state.step = PATHS
\* App.tsx 1074
CurriculumView == ~state.isLoading /\ state.step = CURRICULUM /\ state.curriculum # Null
\* App.tsx 915, 962, 976, 1015, 1078: the views that render the breadcrumbs
BreadcrumbsShown ==
  InputView \/ LoadingScreen \/ PillarsView \/ PathsView \/ CurriculumView

(***************************************************************************)
(* Authentication and the library fetch.                                   *)
(***************************************************************************)
\* App.tsx 222: the listener is told that nobody is signed in.
OnSignedOut(s) == [s EXCEPT !.user = Null, !.step = AUTH, !.library = <<>>]

\* App.tsx 212-217: the fetched library is stored.
OnLibraryFetched(s, library) ==
  [s EXCEPT !.library = library,
            !.step = IF s.step = AUTH THEN DASHBOARD ELSE s.step]

\* App.tsx 218-220: the fetch failed.
OnLibraryFetchFailed(s) == s

\* App.tsx 187-201, 221-225: the onAuthStateChanged callback up to its await.
AuthStateChanged ==
  /\ Turn
  /\ authEvent
  /\ authEvent' = FALSE
  /\ IF fbUser # Null
     THEN /\ Commit([state EXCEPT !.user = fbUser], FALSE, audioRef, <<>>)
          /\ IF db
             THEN /\ fetches < MaxFetches
                  /\ fetches' = fetches + 1
             ELSE UNCHANGED fetches
          /\ UNCHANGED isAuthLoading
     ELSE /\ Commit(OnSignedOut(state), FALSE, audioRef, <<>>)
          /\ isAuthLoading' = FALSE
          /\ UNCHANGED fetches
  /\ UNCHANGED <<auth, chatSession, tutorCalls, db, fbUser, loginPending, logoutPending, requests,
                 remote, isLoadingAudio, audioCall, now>>

\* App.tsx 203-217, 224: getDocs resolved.
FetchResolve ==
  /\ Turn
  /\ fetches > 0
  /\ fetches' = fetches - 1
  /\ Commit(OnLibraryFetched(state, SortByLastAccessed(remote)), FALSE, audioRef, <<>>)
  /\ isAuthLoading' = FALSE
  /\ UNCHANGED <<auth, chatSession, tutorCalls, db, fbUser, authEvent, loginPending, logoutPending,
                 requests, remote, isLoadingAudio, audioCall, now>>

\* App.tsx 218-220, 224: getDocs rejected.
FetchReject ==
  /\ Turn
  /\ fetches > 0
  /\ fetches' = fetches - 1
  /\ Commit(OnLibraryFetchFailed(state), FALSE, audioRef, <<>>)
  /\ isAuthLoading' = FALSE
  /\ UNCHANGED <<auth, chatSession, tutorCalls, db, fbUser, authEvent, loginPending, logoutPending,
                 requests, remote, isLoadingAudio, audioCall, now>>

\* App.tsx 329-332: the sign-in button is clicked.
handleGoogleLogin ==
  /\ Turn
  /\ AuthView
  /\ ~loginPending
  /\ isAuthLoading' = TRUE
  /\ loginPending' = TRUE
  /\ UNCHANGED <<state, storage, auth, chatSession, tutorCalls, db, fbUser, authEvent, logoutPending, fetches,
                 requests, remote, writes, audioRef, isLoadingAudio, audioCall, now>>

\* firebase.ts 50-53, App.tsx 336: the provider signed the user in; the
\* listener is told when the signed-in user changed.
SignInResolve ==
  /\ Turn
  /\ loginPending /\ auth
  /\ loginPending' = FALSE
  /\ fbUser' = TheUser
  /\ authEvent' = (authEvent \/ fbUser # TheUser)
  /\ UNCHANGED <<state, storage, auth, chatSession, tutorCalls, db, isAuthLoading, logoutPending, fetches,
                 requests, remote, writes, audioRef, isLoadingAudio, audioCall, now>>

\* firebase.ts 54-57, App.tsx 353-356: the sign-in failed.
SignInReject ==
  /\ Turn
  /\ loginPending /\ auth
  /\ loginPending' = FALSE
  /\ isAuthLoading' = FALSE
  /\ UNCHANGED <<state, storage, auth, chatSession, tutorCalls, db, fbUser, authEvent, logoutPending, fetches,
                 requests, remote, writes, audioRef, isLoadingAudio, audioCall, now>>

\* firebase.ts 58-72, App.tsx 336-351: demo mode, the fabricated user arrives.
MockSignInResolve ==
  /\ Turn
  /\ loginPending /\ ~auth
  /\ loginPending' = FALSE
  /\ Commit([state EXCEPT !.user = MockUser, !.step = DASHBOARD], FALSE, audioRef, <<>>)
  /\ isAuthLoading' = FALSE
  /\ UNCHANGED <<auth, chatSession, tutorCalls, db, fbUser, authEvent, logoutPending, fetches,
                 requests, remote, isLoadingAudio, audioCall, now>>

\* A reset that forgets the library.
OnLogoutKeepsLibrary(s) == [INITIAL_STATE EXCEPT !.library = s.library]

\* App.tsx 361: the session is reset.
OnLogout(s) == INITIAL_STATE

\* App.tsx 359-360: the logout button is clicked.  Without a provider
\* logoutUser() settles in the same turn (firebase.ts 75-81).
handleLogout ==
  /\ Turn
  /\ DashboardView
  /\ ~logoutPending
  /\ IF auth
     THEN /\ logoutPending' = TRUE
          /\ UNCHANGED <<state, storage, writes, audioRef>>
     ELSE /\ Commit(OnLogout(state), TRUE, audioRef, <<>>)
          /\ UNCHANGED logoutPending
  /\ UNCHANGED <<auth, chatSession, tutorCalls, db, fbUser, authEvent, isAuthLoading, loginPending,
                 fetches, requests, remote, isLoadingAudio, audioCall, now>>

\* firebase.ts 77, App.tsx 222-224, 361: signOut() resolved; the listener is
\* told first, then handleLogout continues.
SignOutResolve ==
  /\ Turn
  /\ logoutPending
  /\ logoutPending' = FALSE
  /\ fbUser' = Null
  /\ Commit(OnLogout(OnSignedOut(state)), TRUE, audioRef, <<>>)
  /\ isAuthLoading' = (IF fbUser # Null THEN FALSE ELSE isAuthLoading)
  /\ UNCHANGED <<auth, chatSession, tutorCalls, db, authEvent, loginPending, fetches, requests,
                 remote, isLoadingAudio, audioCall, now>>

\* firebase.ts 77, App.tsx 360: signOut() rejected, handleLogout stops there.
SignOutReject ==
  /\ Turn
  /\ logoutPending
  /\ logoutPending' = FALSE
  /\ UNCHANGED <<state, storage, auth, chatSession, tutorCalls, db, fbUser, authEvent, isAuthLoading,
                 loginPending, fetches, requests, remote, writes, audioRef,
                 isLoadingAudio, audioCall, now>>

(***************************************************************************)
(* Dashboard.                                                              *)
(***************************************************************************)

\* A new course that skips the subject form.
OnStartNewCourseAtPillars(s) ==
  [s EXCEPT !.step = PILLARS, !.subject = "", !.selectedPillar = Null,
            !.selectedPath = Null, !.curriculum = Null,
            !.activeCourseId = NoId, !.chatHistory = <<>>]

\* App.tsx 366-375
OnStartNewCourse(s) ==
  [s EXCEPT !.step = INPUT, !.subject = "", !.selectedPillar = Null,
            !.selectedPath = Null, !.curriculum = Null,
            !.activeCourseId = NoId, !.chatHistory = <<>>]

\* App.tsx 365-377
handleStartNewCourse ==
  /\ Turn
  /\ DashboardView
  /\ Commit(OnStartNewCourse(state), FALSE, audioRef, <<>>)
  /\ UNCHANGED <<auth, chatSession, tutorCalls, db, fbUser, authEvent, isAuthLoading, loginPending,
                 logoutPending, fetches, requests, remote, isLoadingAudio, audioCall, now>>

\* App.tsx 383-386: the optimistic removal.
OnDeleteCourse(s, courseId) ==
  [s EXCEPT !.library = SelectSeq(s.library, LAMBDA c : c.id # courseId)]

\* App.tsx 379-391
handleDeleteCourse(courseId) ==
  /\ Turn
  /\ DashboardView
  /\ Commit(OnDeleteCourse(state, courseId), FALSE, audioRef,
            IF state.user # Null /\ db
            THEN <<[op |-> "delete", id |-> courseId, course |-> Null]>>
            ELSE <<>>)
  /\ UNCHANGED <<auth, chatSession, tutorCalls, db, fbUser, authEvent, isAuthLoading, loginPending,
                 logoutPending, fetches, requests, remote, isLoadingAudio, audioCall, now>>

\* App.tsx 409-414
ResumeMessage(course) ==
  [id |-> "resume", role |-> "model",
   text |-> <<"Welcome back to ", course.path.title, "! Ready to continue learning?">>,
   isThinking |-> FALSE]

\* geminiService.ts 223-262: the session created for a course; the history
\* handed over leaves out thinking placeholders and the welcome message.
initializeChat(subject, pillar, path, curriculum, previousHistory) ==
  [subject |-> subject, pillar |-> pillar, path |-> path,
   history |-> SelectSeq(previousHistory,
                         LAMBDA msg : ~msg.isThinking /\ msg.id # "welcome")]

\* A resume that takes the course but leaves the session's progress.
OnResumeCourseKeepingProgress(s, course) ==
  [s EXCEPT !.step = CURRICULUM,
            !.activeCourseId = course.id,
            !.subject = course.subject,
            !.selectedPillar = course.pillar,
            !.selectedPath = course.path,
            !.curriculum = course.curriculum,
            !.chatHistory = <<ResumeMessage(course)>>]

\* App.tsx 399-415
OnResumeCourse(s, course) ==
  [s EXCEPT !.step = CURRICULUM,
            !.activeCourseId = course.id,
            !.subject = course.subject,
            !.selectedPillar = course.pillar,
            !.selectedPath = course.path,
            !.curriculum = course.curriculum,
            !.completedSubLessons = course.completedSubLessons,
            !.subLessonFeedback = course.subLessonFeedback,
            !.chatHistory = <<ResumeMessage(course)>>]

\* App.tsx 417-418: the tutor session of a resumed course; no history is
\* handed over.
ResumedChat(course) ==
  initializeChat(course.subject, course.pillar.title, course.path.title,
                 course.curriculum, <<>>)

\* App.tsx 398-419
handleResumeCourse(course) ==
  /\ Turn
  /\ DashboardView
  /\ Commit(OnResumeCourse(state, course), TRUE, audioRef, <<>>)
  /\ chatSession' = ResumedChat(course)
  /\ UNCHANGED <<auth, tutorCalls, db, fbUser, authEvent, isAuthLoading, loginPending,
                 logoutPending, fetches, requests, remote, isLoadingAudio, audioCall, now>>

(***************************************************************************)
(* Content generation: subject -> pillars -> paths -> curriculum.          *)
(***************************************************************************)
\* A gateway call in flight, with what its handler's closure captured.
Request(kind, subject, pillar, path, user) ==
  [kind |-> kind, subject |-> subject, pillar |-> pillar, path |-> path, user |-> user]

\* A catch block that reports the error but forgets to drop the spinner.
OnGenerationFailedStillLoading(s, message) == [s EXCEPT !.error = message]

\* App.tsx 436, 452, 508: the catch block of the three handlers.
OnGenerationFailed(s, message) == [s EXCEPT !.isLoading = FALSE, !.error = message]

\* The handler issues the gateway call r.
Issue(r) ==
  /\ r \notin requests
  /\ Cardinality(requests) < MaxRequests
  /\ requests' = requests \cup {r}

\* App.tsx 421-428
handleSubjectSubmit(inputText) ==
  /\ Turn
  /\ InputView /\ ~state.isLoading
  /\ Commit([state EXCEPT !.isLoading = TRUE, !.subject = inputText, !.error = NoError],
            FALSE, audioRef, <<>>)
  /\ Issue(Request("pillars", inputText, Null, Null, Null))
  /\ UNCHANGED <<auth, chatSession, tutorCalls, db, fbUser, authEvent, isAuthLoading, loginPending,
                 logoutPending, fetches, remote, isLoadingAudio, audioCall, now>>

\* App.tsx 429-434
OnPillars(s, pillars) == [s EXCEPT !.isLoading = FALSE, !.pillars = pillars, !.step = PILLARS]

\* geminiService.ts 43-61, App.tsx 428-434: generatePillars resolved.
PillarsResolve(r) ==
  /\ Turn
  /\ r \in requests /\ r.kind = "pillars"
  /\ requests' = requests \ {r}
  /\ Commit(OnPillars(state, GeneratedPillars), FALSE, audioRef, <<>>)
  /\ UNCHANGED <<auth, chatSession, tutorCalls, db, fbUser, authEvent, isAuthLoading, loginPending,
                 logoutPending, fetches, remote, isLoadingAudio, audioCall, now>>

\* geminiService.ts 62-65, App.tsx 435-437: generatePillars threw.
PillarsReject(r) ==
  /\ Turn
  /\ r \in requests /\ r.kind = "pillars"
  /\ requests' = requests \ {r}
  /\ Commit(OnGenerationFailed(state, PillarsError), FALSE, audioRef, <<>>)
  /\ UNCHANGED <<auth, chatSession, tutorCalls, db, fbUser, authEvent, isAuthLoading, loginPending,
                 logoutPending, fetches, remote, isLoadingAudio, audioCall, now>>

\* App.tsx 440-444
handlePillarSelect(pillar) ==
  /\ Turn
  /\ PillarsView
  /\ Commit([state EXCEPT !.isLoading = TRUE, !.selectedPillar = pillar, !.error = NoError],
            FALSE, audioRef, <<>>)
  /\ Issue(Request("paths", state.subject, pillar, Null, Null))
  /\ UNCHANGED <<auth, chatSession, tutorCalls, db, fbUser, authEvent, isAuthLoading, loginPending,
                 logoutPending, fetches, remote, isLoadingAudio, audioCall, now>>

\* App.tsx 445-450
OnPaths(s, paths) == [s EXCEPT !.isLoading = FALSE, !.paths = paths, !.step = PATHS]

\* geminiService.ts 92-103, App.tsx 444-450: generateLessonPaths resolved.
PathsResolve(r) ==
  /\ Turn
  /\ r \in requests /\ r.kind = "paths"
  /\ requests' = requests \ {r}
  /\ Commit(OnPaths(state, GeneratedPaths), FALSE, audioRef, <<>>)
  /\ UNCHANGED <<auth, chatSession, tutorCalls, db, fbUser, authEvent, isAuthLoading, loginPending,
                 logoutPending, fetches, remote, isLoadingAudio, audioCall, now>>

\* geminiService.ts 104-107, App.tsx 451-453: generateLessonPaths threw.
PathsReject(r) ==
  /\ Turn
  /\ r \in requests /\ r.kind = "paths"
  /\ requests' = requests \ {r}
  /\ Commit(OnGenerationFailed(state, PathsError), FALSE, audioRef, <<>>)
  /\ UNCHANGED <<auth, chatSession, tutorCalls, db, fbUser, authEvent, isAuthLoading, loginPending,
                 logoutPending, fetches, remote, isLoadingAudio, audioCall, now>>

\* A handler that calls the gateway without looking at the selected pillar.
handlePathSelectUnchecked(path) ==
  /\ Turn
  /\ PathsView
  /\ Commit([state EXCEPT !.isLoading = TRUE, !.selectedPath = path, !.error = NoError],
            FALSE, audioRef, <<>>)
  /\ Issue(Request("curriculum", state.subject, state.selectedPillar, path, state.user))
  /\ UNCHANGED <<auth, chatSession, tutorCalls, db, fbUser, authEvent, isAuthLoading, loginPending,
                 logoutPending, fetches, remote, isLoadingAudio, audioCall, now>>

\* App.tsx 456-461: without a selected pillar the handler throws before the
\* gateway is called and its own catch block runs in the same turn.
handlePathSelect(path) ==
  /\ Turn
  /\ PathsView
  /\ LET loading == [state EXCEPT !.isLoading = TRUE, !.selectedPath = path, !.error = NoError]
     IN IF state.selectedPillar = Null
        THEN /\ Commit(OnGenerationFailed(loading, PillarNotSelected), FALSE, audioRef, <<>>)
             /\ UNCHANGED requests
        ELSE /\ Commit(loading, FALSE, audioRef, <<>>)
             /\ Issue(Request("curriculum", state.subject, state.selectedPillar, path, state.user))
  /\ UNCHANGED <<auth, chatSession, tutorCalls, db, fbUser, authEvent, isAuthLoading, loginPending,
                 logoutPending, fetches, remote, isLoadingAudio, audioCall, now>>

\* App.tsx 464-475
newCourse(r, curriculum) == SavedCourse(now, r.subject, r.pillar, r.path, curriculum)

\* App.tsx 481-496
OnCurriculum(s, r, curriculum) ==
  [s EXCEPT !.isLoading = FALSE,
            !.curriculum = curriculum,
            !.completedSubLessons = <<>>,
            !.subLessonFeedback = EmptyFeedback,
            !.step = CURRICULUM,
            !.activeCourseId = newCourse(r, curriculum).id,
            !.library = <<newCourse(r, curriculum)>> \o s.library,
            !.chatHistory = <<WelcomeMessage(r.path, curriculum)>>]

\* App.tsx 461-501: generateCurriculum resolved.
CurriculumResolve(r) ==
  /\ Turn
  /\ r \in requests /\ r.kind = "curriculum"
  /\ Len(state.library) < MaxLibrary
  /\ requests' = requests \ {r}
  /\ LET curriculum == GeneratedCurriculum(r.path)
     IN Commit(OnCurriculum(state, r, curriculum), TRUE, audioRef,
               IF r.user # Null /\ db
               THEN <<[op |-> "set", id |-> now, course |-> newCourse(r, curriculum)]>>
               ELSE <<>>)
  /\ chatSession' = initializeChat(r.subject, r.pillar.title, r.path.title,
                                   GeneratedCurriculum(r.path), <<>>)
  /\ UNCHANGED <<auth, tutorCalls, db, fbUser, authEvent, isAuthLoading, loginPending,
                 logoutPending, fetches, remote, isLoadingAudio, audioCall, now>>

\* geminiService.ts 189-192, App.tsx 507-509: generateCurriculum threw.
CurriculumReject(r) ==
  /\ Turn
  /\ r \in requests /\ r.kind = "curriculum"
  /\ requests' = requests \ {r}
  /\ Commit(OnGenerationFailed(state, CurriculumError), FALSE, audioRef, <<>>)
  /\ UNCHANGED <<auth, chatSession, tutorCalls, db, fbUser, authEvent, isAuthLoading, loginPending,
                 logoutPending, fetches, remote, isLoadingAudio, audioCall, now>>

(***************************************************************************)
(* Progress in the curriculum view.                                        *)
(***************************************************************************)
\* The indices of curriculum.subLessons (App.tsx 1229).
SubLessonIndices(s) == 0 .. (Len(s.curriculum.subLessons) - 1)

Includes(seq, x) == \E k \in DOMAIN seq : seq[k] = x

\* A toggle that only ever marks the lesson complete.
OnToggleSubLessonAppending(s, index) ==
  [s EXCEPT !.completedSubLessons = Append(s.completedSubLessons, index)]

\* App.tsx 513-519
OnToggleSubLesson(s, index) ==
  LET isCompleted == Includes(s.completedSubLessons, index)
      newCompleted == IF isCompleted
                      THEN SelectSeq(s.completedSubLessons, LAMBDA i : i # index)
                      ELSE Append(s.completedSubLessons, index)
  IN [s EXCEPT !.completedSubLessons = newCompleted]

\* App.tsx 512-520
toggleSubLesson(index) ==
  /\ Turn
  /\ CurriculumView
  /\ index \in SubLessonIndices(state)
  /\ Commit(OnToggleSubLesson(state, index), TRUE, audioRef, <<>>)
  /\ UNCHANGED <<auth, chatSession, tutorCalls, db, fbUser, authEvent, isAuthLoading, loginPending,
                 logoutPending, fetches, requests, remote, isLoadingAudio, audioCall, now>>

\* A feedback that can be given once: a later choice for the same lesson is
\* dropped.
OnSubLessonFeedbackOnce(s, index, type) ==
  [s EXCEPT !.subLessonFeedback =
     [i \in DOMAIN s.subLessonFeedback \cup {index} |->
        IF i \in DOMAIN s.subLessonFeedback THEN s.subLessonFeedback[i] ELSE type]]

\* App.tsx 523-529
OnSubLessonFeedback(s, index, type) ==
  [s EXCEPT !.subLessonFeedback =
     [i \in DOMAIN s.subLessonFeedback \cup {index} |->
        IF i = index THEN type ELSE s.subLessonFeedback[i]]]

\* App.tsx 522-530
handleSubLessonFeedback(index, type) ==
  /\ Turn
  /\ CurriculumView
  /\ index \in SubLessonIndices(state)
  /\ Commit(OnSubLessonFeedback(state, index, type), TRUE, audioRef, <<>>)
  /\ UNCHANGED <<auth, chatSession, tutorCalls, db, fbUser, authEvent, isAuthLoading, loginPending,
                 logoutPending, fetches, requests, remote, isLoadingAudio, audioCall, now>>

(***************************************************************************)
(* Navigation.                                                             *)
(***************************************************************************)
\* A Back button that always goes one step back in the wizard.
OnGoBackOneStep(s) ==
  CASE s.step = CURRICULUM ->
         [s EXCEPT !.step = PATHS, !.activeCourseId = NoId, !.curriculum = Null]
    [] s.step = PATHS ->
         [s EXCEPT !.step = PILLARS, !.paths = <<>>, !.selectedPillar = Null]
    [] s.step = PILLARS ->
         [s EXCEPT !.step = INPUT, !.pillars = <<>>, !.subject = ""]
    [] s.step = INPUT ->
         [s EXCEPT !.step = DASHBOARD]
    [] OTHER -> s

\* App.tsx 577-592
OnGoBack(s) ==
  CASE s.step = CURRICULUM ->
         [s EXCEPT !.step = DASHBOARD, !.activeCourseId = NoId, !.curriculum = Null]
    [] s.step = PATHS ->
         [s EXCEPT !.step = PILLARS, !.paths = <<>>, !.selectedPillar = Null]
    [] s.step = PILLARS ->
         [s EXCEPT !.step = INPUT, !.pillars = <<>>, !.subject = ""]
    [] s.step = INPUT ->
         [s EXCEPT !.step = DASHBOARD]
    [] OTHER -> s

\* App.tsx 721-723, 977, 1016, 1080, 1417: the Back buttons.
goBack ==
  /\ Turn
  /\ BreadcrumbsShown
  /\ state.step \notin {INPUT, DASHBOARD}
  /\ Commit(OnGoBack(state), FALSE, audioRef, <<>>)
  /\ UNCHANGED <<auth, chatSession, tutorCalls, db, fbUser, authEvent, isAuthLoading, loginPending,
                 logoutPending, fetches, requests, remote, isLoadingAudio, audioCall, now>>

\* App.tsx 727
OnBreadcrumbDashboard(s) ==
  [s EXCEPT !.step = DASHBOARD, !.activeCourseId = NoId, !.curriculum = Null]

\* App.tsx 724-729: the Dashboard breadcrumb.
BreadcrumbDashboard ==
  /\ Turn
  /\ BreadcrumbsShown
  /\ state.step \notin {DASHBOARD, AUTH}
  /\ Commit(OnBreadcrumbDashboard(state), FALSE, audioRef, <<>>)
  /\ UNCHANGED <<auth, chatSession, tutorCalls, db, fbUser, authEvent, isAuthLoading, loginPending,
                 logoutPending, fetches, requests, remote, isLoadingAudio, audioCall, now>>

\* App.tsx 740
OnBreadcrumbPillar(s) ==
  [s EXCEPT !.step = PILLARS, !.selectedPath = Null, !.curriculum = Null]

\* App.tsx 736-746: the breadcrumb of the selected pillar.
BreadcrumbPillar ==
  /\ Turn
  /\ BreadcrumbsShown
  /\ state.selectedPillar # Null
  /\ Commit(OnBreadcrumbPillar(state), FALSE, audioRef, <<>>)
  /\ UNCHANGED <<auth, chatSession, tutorCalls, db, fbUser, authEvent, isAuthLoading, loginPending,
                 logoutPending, fetches, requests, remote, isLoadingAudio, audioCall, now>>

(***************************************************************************)
(* Audio overview.                                                         *)
(***************************************************************************)
\* App.tsx 616-651: the play button, with no audio element yet.  (With one
\* it plays or pauses, which changes nothing modelled here.)
toggleAudio ==
  /\ Turn
  /\ CurriculumView
  /\ ~isLoadingAudio
  /\ ~audioRef
  /\ isLoadingAudio' = TRUE
  /\ audioCall' = Script(state.curriculum)
  /\ UNCHANGED <<state, storage, auth, chatSession, tutorCalls, db, fbUser, authEvent, isAuthLoading,
                 loginPending, logoutPending, fetches, requests, remote,
                 writes, audioRef, now>>

\* An audio response that is dropped when it arrives.
OnAudioDropped(s, base64Audio) == s

\* App.tsx 654-663
OnAudio(s, base64Audio) ==
  IF s.curriculum = Null THEN s
  ELSE [s EXCEPT !.curriculum.audioData = base64Audio]

\* geminiService.ts 195-214, App.tsx 651-679: generateModuleAudio resolved.
AudioResolve ==
  /\ Turn
  /\ isLoadingAudio
  /\ isLoadingAudio' = FALSE
  /\ audioCall' = Null
  /\ Commit(OnAudio(state, Base64Audio(audioCall)), FALSE, TRUE, <<>>)
  /\ UNCHANGED <<auth, chatSession, tutorCalls, db, fbUser, authEvent, isAuthLoading, loginPending,
                 logoutPending, fetches, requests, remote, now>>

\* geminiService.ts 215-218, App.tsx 676-680: generateModuleAudio threw.
AudioReject ==
  /\ Turn
  /\ isLoadingAudio
  /\ isLoadingAudio' = FALSE
  /\ audioCall' = Null
  /\ UNCHANGED <<state, storage, auth, chatSession, tutorCalls, db, fbUser, authEvent, isAuthLoading,
                 loginPending, logoutPending, fetches, requests, remote,
                 writes, audioRef, now>>

(***************************************************************************)
(* Tutor chat.                                                             *)
(***************************************************************************)
\* What the user types into the chat form.
ChatInputs == {"Why?"}

\* What the model call behind the session ends with: a reply, or an error.
ModelOutcomes ==
  {[ok |-> TRUE, text |-> "Because."], [ok |-> FALSE, text |-> "503 Service Unavailable"]}

\* geminiService.ts 274
Fallback == "I'm having trouble connecting right now. Please try again."

\* A gateway that hands the error's message over as the reply.
sendMessageToTutorRaw(outcome) == outcome.text

\* geminiService.ts 269-275: the reply of the model, or the fallback string.
sendMessageToTutor(outcome) == IF outcome.ok THEN outcome.text ELSE Fallback

\* App.tsx 536-541
userMsg(chatInput) ==
  [id |-> ToString(now), role |-> "user", text |-> <<chatInput>>, isThinking |-> FALSE]

\* App.tsx 545-551
ThinkingMessage == [id |-> "thinking", role |-> "model", text |-> <<>>, isThinking |-> TRUE]

\* App.tsx 543-552
OnSendMessage(s, chatInput) ==
  [s EXCEPT !.chatHistory = s.chatHistory \o <<userMsg(chatInput), ThinkingMessage>>]

\* App.tsx 557-565
OnTutorReply(s, responseText) ==
  [s EXCEPT !.chatHistory =
     SelectSeq(s.chatHistory, LAMBDA m : ~m.isThinking)
       \o <<[id |-> ToString(now + 1), role |-> "model", text |-> <<responseText>>,
             isThinking |-> FALSE]>>]

\* App.tsx 566-572: sendMessageToTutor threw.
OnTutorThrew(s) ==
  [s EXCEPT !.chatHistory = SelectSeq(s.chatHistory, LAMBDA m : ~m.isThinking)]

\* App.tsx 532-555, 1471-1487: the chat form is submitted.  Without a tutor
\* session sendMessageToTutor throws (geminiService.ts 265-267) and the catch
\* block runs before anything else happens.
handleSendMessage(chatInput) ==
  /\ Turn
  /\ CurriculumView
  /\ IF chatSession = Null
     THEN /\ Commit(OnTutorThrew(OnSendMessage(state, chatInput)), FALSE, audioRef, <<>>)
          /\ UNCHANGED tutorCalls
     ELSE /\ tutorCalls < MaxChats
          /\ Commit(OnSendMessage(state, chatInput), FALSE, audioRef, <<>>)
          /\ tutorCalls' = tutorCalls + 1
  /\ UNCHANGED <<auth, chatSession, db, fbUser, authEvent, isAuthLoading, loginPending,
                 logoutPending, fetches, requests, remote, isLoadingAudio, audioCall, now>>

\* App.tsx 556-565: sendMessageToTutor returned.
TutorSettled(outcome) ==
  /\ Turn
  /\ tutorCalls > 0
  /\ tutorCalls' = tutorCalls - 1
  /\ Commit(OnTutorReply(state, sendMessageToTutor(outcome)), FALSE, audioRef, <<>>)
  /\ UNCHANGED <<auth, chatSession, db, fbUser, authEvent, isAuthLoading, loginPending,
                 logoutPending, fetches, requests, remote, isLoadingAudio, audioCall, now>>

(***************************************************************************)
(* The page is reloaded.                                                   *)
(***************************************************************************)
\* App.tsx 231-240: the chat session of a session restored in the curriculum.
RestoredChat(s) ==
  IF s.step = CURRICULUM /\ s.curriculum # Null /\ s.selectedPillar # Null
       /\ s.selectedPath # Null
  THEN initializeChat(s.subject, s.selectedPillar.title, s.selectedPath.title,
                      s.curriculum, s.chatHistory)
  ELSE Null

\* App.tsx 147-161 and the effects of the first render: the state starts from
\* the snapshot, the handlers and pending calls of the old page are gone.  The
\* document store settles what it was sent; a sign-out that was pending took
\* place or did not.
Reload ==
  /\ Turn
  /\ state' = SyncLibrary(Restore(storage))
  /\ storage' = StorageAfter(state', StorageAfter(Restore(storage), storage))
  /\ writes' = writes \o SyncWrites(Restore(storage))
  /\ Len(writes') <= MaxWrites
  /\ audioRef' = (audioDataOf(Restore(storage)) # NoAudio)
  /\ chatSession' = RestoredChat(Restore(storage))
  /\ fbUser' \in (IF logoutPending THEN {fbUser, Null} ELSE {fbUser})
  /\ authEvent' = auth
  /\ isAuthLoading' = auth
  /\ loginPending' = FALSE
  /\ logoutPending' = FALSE
  /\ fetches' = 0
  /\ requests' = {}
  /\ isLoadingAudio' = FALSE
  /\ audioCall' = Null
  /\ tutorCalls' = 0
  /\ UNCHANGED <<auth, db, remote, now>>

(***************************************************************************)
(* The document store settles the calls, oldest first.                     *)
(***************************************************************************)
\* A rejected call that is reported like a failed generation.
OnWriteFailedReported(s) == [s EXCEPT !.isLoading = FALSE, !.error = "Failed to save"]

\* App.tsx 290, 392-394, 502-504: a rejected call is logged.
OnWriteFailed(s) == s

\* setDoc / deleteDoc resolved.
WriteResolve ==
  /\ Turn
  /\ writes # <<>>
  /\ remote' = ApplyWrite(remote, Head(writes))
  /\ writes' = Tail(writes)
  /\ UNCHANGED <<state, storage, auth, chatSession, tutorCalls, db, fbUser, authEvent, isAuthLoading,
                 loginPending, logoutPending, fetches, requests, audioRef,
                 isLoadingAudio, audioCall, now>>

\* setDoc / deleteDoc rejected.
WriteReject ==
  /\ Turn
  /\ writes # <<>>
  /\ writes' = Tail(writes)
  /\ state' = OnWriteFailed(state)
  /\ storage' = StorageAfter(state', storage)
  /\ UNCHANGED <<auth, chatSession, tutorCalls, db, fbUser, authEvent, isAuthLoading, loginPending,
                 logoutPending, fetches, requests, remote, audioRef,
                 isLoadingAudio, audioCall, now>>

(***************************************************************************)
(* Time passes.                                                            *)
(***************************************************************************)
Tick ==
  /\ Turn
  /\ now < MaxTime
  /\ now' = now + 1
  /\ UNCHANGED <<state, storage, auth, chatSession, tutorCalls, db, fbUser, authEvent, isAuthLoading,
                 loginPending, logoutPending, fetches, requests, remote,
                 writes, audioRef, isLoadingAudio, audioCall>>

FeedbackTypes == {"helpful", "unhelpful"}

Next ==
  \/ AuthStateChanged
  \/ FetchResolve
  \/ FetchReject
  \/ handleGoogleLogin
  \/ SignInResolve
  \/ SignInReject
  \/ MockSignInResolve
  \/ handleLogout
  \/ SignOutResolve
  \/ SignOutReject
  \/ handleStartNewCourse
  \/ \E c \in Range(state.library) : handleDeleteCourse(c.id)
  \/ \E c \in Range(state.library) : handleResumeCourse(c)
  \/ \E inputText \in Subjects : handleSubjectSubmit(inputText)
  \/ \E r \in requests : PillarsResolve(r)
  \/ \E r \in requests : PillarsReject(r)
  \/ \E pillar \in Range(state.pillars) : handlePillarSelect(pillar)
  \/ \E r \in requests : PathsResolve(r)
  \/ \E r \in requests : PathsReject(r)
  \/ \E path \in Range(state.paths) : handlePathSelect(path)
  \/ \E r \in requests : CurriculumResolve(r)
  \/ \E r \in requests : CurriculumReject(r)
  \/ \E index \in 0 .. (Len(GeneratedSubLessons) - 1) : toggleSubLesson(index)
  \/ \E index \in 0 .. (Len(GeneratedSubLessons) - 1), type \in FeedbackTypes :
       handleSubLessonFeedback(index, type)
  \/ goBack
  \/ BreadcrumbDashboard
  \/ BreadcrumbPillar
  \/ toggleAudio
  \/ AudioResolve
  \/ AudioReject
  \/ \E chatInput \in ChatInputs : handleSendMessage(chatInput)
  \/ \E outcome \in ModelOutcomes : TutorSettled(outcome)
  \/ Reload
  \/ WriteResolve
  \/ WriteReject
  \/ Tick

\* A first visit.
Spec == Init /\ [][Next]_vars

\* A returning user.
SpecReturning == InitReturning /\ [][Next]_vars

\* What a user does who generates courses, studies and resumes them; every
\* step of it is a step of Next.
NextGenerating ==
  \/ handleGoogleLogin
  \/ MockSignInResolve
  \/ handleStartNewCourse
  \/ \E c \in Range(state.library) : handleResumeCourse(c)
  \/ \E inputText \in Subjects : handleSubjectSubmit(inputText)
  \/ \E r \in requests : PillarsResolve(r)
  \/ \E pillar \in Range(state.pillars) : handlePillarSelect(pillar)
  \/ \E r \in requests : PathsResolve(r)
  \/ \E path \in Range(state.paths) : handlePathSelect(path)
  \/ \E r \in requests : CurriculumResolve(r)
  \/ \E index \in 0 .. (Len(GeneratedSubLessons) - 1) : toggleSubLesson(index)
  \/ goBack
  \/ BreadcrumbDashboard
  \/ BreadcrumbPillar
  \/ Tick

\* A first visit in demo mode, generating courses.
SpecGenerating == InitGenerating /\ [][NextGenerating]_vars

(***************************************************************************)
(* Pure functions of the program, each applied to one input per run:       *)
(* pcmToWav (App.tsx) and the parsing half of the three generation calls   *)
(* of the gateway (geminiService.ts).                                      *)
(***************************************************************************)
\* The base64 alphabet, the character of value 0 first.
Base64Alphabet ==
  <<
    "A", "B", "C", "D", "E", "F", "G", "H", "I", "J", "K", "L", "M", "N", "O", "P",
    "Q", "R", "S", "T", "U", "V", "W", "X", "Y", "Z", "a", "b", "c", "d", "e", "f",
    "g", "h", "i", "j", "k", "l", "m", "n", "o", "p", "q", "r", "s", "t", "u", "v",
    "w", "x", "y", "z", "0", "1", "2", "3", "4", "5", "6", "7", "8", "9", "+", "/"
  >>

Base64Char(value) == Base64Alphabet[value + 1]

Base64Value(char) == CHOOSE value \in 0 .. 63 : Base64Alphabet[value + 1] = char

\* geminiService.ts 209-214: the speech API hands the PCM bytes over as
\* base64 text, three bytes in four characters, padded with "=".
RECURSIVE Base64Encode(_)
Base64Encode(bytes) ==
  IF Len(bytes) = 0 THEN <<>>
  ELSE IF Len(bytes) = 1
  THEN <<Base64Char(bytes[1] \div 4), Base64Char((bytes[1] % 4) * 16), "=", "=">>
  ELSE IF Len(bytes) = 2
  THEN <<Base64Char(bytes[1] \div 4),
         Base64Char((bytes[1] % 4) * 16 + bytes[2] \div 16),
         Base64Char((bytes[2] % 16) * 4), "=">>
  ELSE <<Base64Char(bytes[1] \div 4),
         Base64Char((bytes[1] % 4) * 16 + bytes[2] \div 16),
         Base64Char((bytes[2] % 16) * 4 + bytes[3] \div 64),
         Base64Char(bytes[3] % 64)>> \o Base64Encode(SubSeq(bytes, 4, Len(bytes)))

\* The characters of base64 text without padding, decoded four at a time.
RECURSIVE Base64Decode(_)
Base64Decode(chars) ==
  IF Len(chars) < 2 THEN <<>>
  ELSE LET a == Base64Value(chars[1])
           b == Base64Value(chars[2])
       IN IF Len(chars) = 2 THEN <<a * 4 + b \div 16>>
          ELSE LET c == Base64Value(chars[3])
               IN IF Len(chars) = 3
                  THEN <<a * 4 + b \div 16, (b % 16) * 16 + c \div 4>>
                  ELSE <<a * 4 + b \div 16, (b % 16) * 16 + c \div 4,
                         (c % 4) * 64 + Base64Value(chars[4])>>
                         \o Base64Decode(SubSeq(chars, 5, Len(chars)))

\* App.tsx 45: atob, the binary string as the sequence of its char codes.
atob(data) ==
  LET n == Len(data)
      padding == IF n > 0 /\ n % 4 = 0 /\ data[n] = "="
                 THEN (IF data[n - 1] = "=" THEN 2 ELSE 1)
                 ELSE 0
  IN Base64Decode(SubSeq(data, 1, n - padding))

\* App.tsx 47: new ArrayBuffer(length), zero-filled, bytes 0 .. length - 1.
ArrayBuffer(length) == [i \in 0 .. (length - 1) |-> 0]

\* String.charCodeAt for the characters of the chunk identifiers.
charCodeAt(char) ==
  CASE char = "R" -> 82 [] char = "I" -> 73 [] char = "F" -> 70
    [] char = "W" -> 87 [] char = "A" -> 65 [] char = "V" -> 86 [] char = "E" -> 69
    [] char = "f" -> 102 [] char = "m" -> 109 [] char = "t" -> 116 [] char = " " -> 32
    [] char = "d" -> 100 [] char = "a" -> 97

\* App.tsx 85-89: one setUint8 per character.
writeString(view, offset, string) ==
  [i \in DOMAIN view |->
     IF i >= offset /\ i < offset + Len(string)
     THEN charCodeAt(string[i - offset + 1]) % 256
     ELSE view[i]]

\* DataView.setUint16(byteOffset, value, true): 16 bits, little-endian.
setUint16(view, byteOffset, value) ==
  [view EXCEPT ![byteOffset] = value % 256,
               ![byteOffset + 1] = (value \div 256) % 256]

\* A DataView that stores the most significant byte first.
setUint32BigEndian(view, byteOffset, value) ==
  [view EXCEPT ![byteOffset] = (value \div 16777216) % 256,
               ![byteOffset + 1] = (value \div 65536) % 256,
               ![byteOffset + 2] = (value \div 256) % 256,
               ![byteOffset + 3] = value % 256]

\* DataView.setUint32(byteOffset, value, true): 32 bits, little-endian.
setUint32(view, byteOffset, value) ==
  [view EXCEPT ![byteOffset] = value % 256,
               ![byteOffset + 1] = (value \div 256) % 256,
               ![byteOffset + 2] = (value \div 65536) % 256,
               ![byteOffset + 3] = (value \div 16777216) % 256]

\* App.tsx 44-83: the bytes of the Blob.
pcmToWav(pcmData, sampleRate, numChannels) ==
  LET binaryString == atob(pcmData)
      len == Len(binaryString)
      buffer == ArrayBuffer(44 + len)
      riff == writeString(buffer, 0, <<"R", "I", "F", "F">>)
      fileLength == setUint32(riff, 4, 36 + len)
      wave == writeString(fileLength, 8, <<"W", "A", "V", "E">>)
      fmt == writeString(wave, 12, <<"f", "m", "t", " ">>)
      fmtLength == setUint32(fmt, 16, 16)
      sampleFormat == setUint16(fmtLength, 20, 1)
      channelCount == setUint16(sampleFormat, 22, numChannels)
      rate == setUint32(channelCount, 24, sampleRate)
      byteRate == setUint32(rate, 28, sampleRate * numChannels * 2)
      blockAlign == setUint16(byteRate, 32, numChannels * 2)
      bitsPerSample == setUint16(blockAlign, 34, 16)
      data == writeString(bitsPerSample, 36, <<"d", "a", "t", "a">>)
      dataLength == setUint32(data, 40, len)
  IN [i \in DOMAIN dataLength |->
        IF i >= 44 THEN binaryString[i - 44 + 1] % 256 ELSE dataLength[i]]

\* What a call ended with.
Returned(value) == [done |-> TRUE, threw |-> FALSE, value |-> value]

Threw(message) == [done |-> TRUE, threw |-> TRUE, message |-> message]

\* The values a PCM byte takes in the runs, and the PCM data of a call.
PcmBytes == {0, 100, 255}

RECURSIVE SeqsUpTo(_, _)
SeqsUpTo(S, n) ==
  IF n = 0 THEN {<<>>}
  ELSE SeqsUpTo(S, n - 1) \cup
         {Append(q, x) : q \in {p \in SeqsUpTo(S, n - 1) : Len(p) = n - 1}, x \in S}

\* App.tsx 44: 24000 Hz mono are the defaults, the only values the App uses.
SampleRates == {24000, 44100}

ChannelCounts == {1, 2}

PcmCalls ==
  {[op |-> "pcmToWav", pcm |-> pcm, pcmData |-> Base64Encode(pcm),
    sampleRate |-> sampleRate, numChannels |-> numChannels] :
     pcm \in SeqsUpTo(PcmBytes, MaxPcmBytes),
     sampleRate \in SampleRates, numChannels \in ChannelCounts}

\* App.tsx 666: pcmToWav is called.
pcmToWavCalled ==
  /\ call.op = "pcmToWav"
  /\ ~result.done
  /\ result' = Returned(pcmToWav(call.pcmData, call.sampleRate, call.numChannels))
  /\ UNCHANGED <<appVars, call>>

\* The text of a model response as the sequence of its parts: a markdown
\* fence, the serialisation of a JSON value, or words that are not JSON.
Fence == [kind |-> "fence"]

JsonText(value) == [kind |-> "json", value |-> value]

Prose == [kind |-> "prose"]

JsonArray(items) == [type |-> "array", items |-> items]

JsonObject(fields) == [type |-> "object", fields |-> fields]

\* geminiService.ts 9-11: the fences are cut out.
cleanJson(text) == SelectSeq(text, LAMBDA part : part.kind # "fence")

\* JSON.parse: the value of a text that is one JSON value, else a SyntaxError.
JSONParse(text) ==
  IF Len(text) = 1 /\ text[1].kind = "json"
  THEN Returned(text[1].value)
  ELSE Threw("SyntaxError")

\* geminiService.ts 54, 102, 187: response.text || fallback.
TextOr(response, fallback) ==
  IF response.text # <<>> THEN response.text ELSE <<JsonText(fallback)>>

\* geminiService.ts 58-61: { ...item, id: index + 1 }
WithId(item, id) ==
  [f \in DOMAIN item \cup {"id"} |-> IF f = "id" THEN id ELSE item[f]]

\* geminiService.ts 44-65: what generatePillars does with the response, and
\* with a call that failed or a value that has no map().
generatePillars(response) ==
  LET data == JSONParse(cleanJson(TextOr(response, JsonArray(<<>>))))
  IN IF ~response.ok \/ data.threw THEN Threw(PillarsError)
     ELSE IF data.value.type # "array" THEN Threw(PillarsError)
     ELSE Returned([index \in DOMAIN data.value.items |->
                      WithId(data.value.items[index], index)])

\* geminiService.ts 92-107
generateLessonPaths(response) ==
  LET data == JSONParse(cleanJson(TextOr(response, JsonArray(<<>>))))
  IN IF ~response.ok \/ data.threw THEN Threw(PathsError) ELSE Returned(data.value)

\* geminiService.ts 177-192
generateCurriculum(response) ==
  LET data == JSONParse(cleanJson(TextOr(response, JsonObject(<<>>))))
  IN IF ~response.ok \/ data.threw THEN Threw(CurriculumError) ELSE Returned(data.value)

\* geminiService.ts 39, 88, 174: the fields the response schemas require.
PillarFields == {"id", "title", "description", "icon"}

PathFields == {"id", "title", "description", "difficulty", "estimatedTime"}

CurriculumFields ==
  {"pathTitle", "introduction", "objectives", "keyConcepts", "realWorldUseCases",
   "caseStudy", "subLessons", "resources"}

\* An object with the given fields.
ObjectWith(fields) == [f \in fields |-> IF f = "id" THEN 7 ELSE f]

\* The ids the model gave its n items: none, the same for all, or descending.
IdSchemes == {"missing", "same", "descending"}

Items(fields, n, scheme) ==
  [k \in 1 .. n |->
     IF scheme = "missing" THEN ObjectWith(fields \ {"id"})
     ELSE IF scheme = "same" THEN ObjectWith(fields)
     ELSE WithId(ObjectWith(fields), n + 1 - k)]

\* The texts a response may carry: none, words, or a JSON value, bare or
\* inside a fence.
Texts(values) ==
  {<<>>, <<Prose>>}
    \cup {<<JsonText(v)>> : v \in values}
    \cup {<<Fence, JsonText(v), Fence>> : v \in values}

\* The responses of the model API: the call failed, or it carries a text.
Responses(values) ==
  {[ok |-> FALSE, text |-> <<>>]} \cup {[ok |-> TRUE, text |-> t] : t \in Texts(values)}

PillarCalls ==
  {[op |-> "generatePillars", response |-> r] :
     r \in Responses({JsonArray(Items(PillarFields, n, scheme)) :
                        n \in {0, MaxItems, PillarCount}, scheme \in IdSchemes}
                     \cup {JsonObject(ObjectWith(PillarFields))})}

PathCalls ==
  {[op |-> "generateLessonPaths", response |-> r] :
     r \in Responses({JsonArray(Items(fields, n, "same")) :
                        n \in 0 .. MaxItems,
                        fields \in {PathFields, PathFields \ {"difficulty"}}}
                     \cup {JsonObject(ObjectWith(PathFields))})}

CurriculumCalls ==
  {[op |-> "generateCurriculum", response |-> r] :
     r \in Responses({JsonObject(ObjectWith(fields)) :
                        fields \in {CurriculumFields, CurriculumFields \ {"objectives"}, {}}}
                     \cup {JsonArray(<<>>)})}

\* App.tsx 428: generatePillars is called.
generatePillarsCalled ==
  /\ call.op = "generatePillars"
  /\ ~result.done
  /\ result' = generatePillars(call.response)
  /\ UNCHANGED <<appVars, call>>

\* App.tsx 444: generateLessonPaths is called.
generateLessonPathsCalled ==
  /\ call.op = "generateLessonPaths"
  /\ ~result.done
  /\ result' = generateLessonPaths(call.response)
  /\ UNCHANGED <<appVars, call>>

\* App.tsx 461: generateCurriculum is called.
generateCurriculumCalled ==
  /\ call.op = "generateCurriculum"
  /\ ~result.done
  /\ result' = generateCurriculum(call.response)
  /\ UNCHANGED <<appVars, call>>

\* One function and its arguments; the App itself is not started.
InitFunctions ==
  /\ FirstVisit
  /\ ~auth
  /\ turns = 0
  /\ \/ call \in PcmCalls
     \/ call \in PillarCalls
     \/ call \in PathCalls
     \/ call \in CurriculumCalls
  /\ result = NotCalled

NextFunctions ==
  \/ pcmToWavCalled
  \/ generatePillarsCalled
  \/ generateLessonPathsCalled
  \/ generateCurriculumCalled

\* The pure functions, each on every input of the bounded sets.
SpecFunctions == InitFunctions /\ [][NextFunctions]_vars

(***************************************************************************)
(* Properties.                                                             *)
(***************************************************************************)
\* The turn in which a generation call of one of the three handlers threw.
GenerationFailed(message) ==
  \E r \in requests :
    \/ message = PillarsError /\ PillarsReject(r)
    \/ message = PathsError /\ PathsReject(r)
    \/ message = CurriculumError /\ CurriculumReject(r)

\* C1: when the gateway call of handleSubjectSubmit, handlePillarSelect or
\* handlePathSelect fails, the step stays what it was, isLoading becomes
\* false, error holds the failure's message, no generated result (pillars,
\* paths, curriculum, library entry) is stored, and no gateway call is issued.
C1_FailureStaysOnStep ==
  [][\A message \in {PillarsError, PathsError, CurriculumError} :
       GenerationFailed(message) =>
         /\ state'.step = state.step
         /\ state'.isLoading = FALSE
         /\ state'.error = message
         /\ state'.pillars = state.pillars
         /\ state'.paths = state.paths
         /\ state'.curriculum = state.curriculum
         /\ state'.library = state.library
         /\ state'.activeCourseId = state.activeCourseId
         /\ requests' \subseteq requests
         /\ isLoadingAudio' = isLoadingAudio]_vars

\* A curriculum generation failed on the path list.
C1_Witness ==
  /\ state.step = PATHS
  /\ state.error = CurriculumError
  /\ ~state.isLoading
  /\ state.selectedPath # Null
  /\ state.curriculum = Null

\* C2: when the provider reports a signed-in user while the step is AUTH the
\* session reaches DASHBOARD with the user set, also when the library fetch
\* fails (the library is then left empty).
C2_FetchFailureReachesDashboard ==
  [][(FetchReject /\ state.user # Null /\ state.step = AUTH) =>
       /\ state'.step = DASHBOARD
       /\ state'.user # Null
       /\ state'.library = <<>>]_vars

\* C3: whenever user is null the step is AUTH.
C3_NoUserMeansAuth == state.user = Null => state.step = AUTH

\* The turn in which a logout completed.
LogoutCompleted == SignOutResolve \/ (handleLogout /\ ~auth)

\* C4: after handleLogout completes the session equals INITIAL_STATE.
C4_LogoutResets == [][LogoutCompleted => state' = INITIAL_STATE]_vars

\* The provider signed a returning user out who had courses stored.
C4_Witness ==
  /\ state = INITIAL_STATE
  /\ fbUser = Null
  /\ remote # {}
  /\ ~logoutPending

C6_PathSuccessPrependsFreshCourse ==
  [][\A r \in requests :
       CurriculumResolve(r) =>
         /\ state'.step = CURRICULUM
         /\ Len(state'.library) = Len(state.library) + 1
         /\ state'.library[1].id \notin {c.id : c \in Range(state.library)}
         /\ state'.activeCourseId = state'.library[1].id
         /\ Tail(state'.library) = state.library
         /\ state'.completedSubLessons = <<>>
         /\ state'.subLessonFeedback = EmptyFeedback
         /\ Len(state'.chatHistory) = 1
         /\ state'.chatHistory[1].id = "welcome"
         /\ state'.chatHistory[1].role = "model"]_vars

C8_ResumeRestoresStoredCourse ==
  [][\A c \in Range(state.library) :
       handleResumeCourse(c) =>
         /\ state'.step = CURRICULUM
         /\ state'.activeCourseId = c.id
         /\ state'.subject = c.subject
         /\ state'.selectedPillar = c.pillar
         /\ state'.selectedPath = c.path
         /\ state'.curriculum = c.curriculum
         /\ state'.completedSubLessons = c.completedSubLessons
         /\ state'.subLessonFeedback = c.subLessonFeedback
         /\ Len(state'.chatHistory) = 1
         /\ state'.chatHistory[1].id = "resume"
         /\ state'.chatHistory[1].role = "model"
         /\ state'.library = state.library]_vars

\* C9: the library is ordered by lastAccessed, most recent first.
C9_LibrarySortedByLastAccessed ==
  \A i, j \in DOMAIN state.library :
    i < j => state.library[i].lastAccessed >= state.library[j].lastAccessed

\* The progress-sync effect ran on the session s1 a handler left, and did
\* what is expected of it; toStore tells whether a remote write is expected
\* and copied is the curriculum expected in the entry.
SyncedAs(s1, toStore, copied(_)) ==
  LET i == FindIndex(s1.library, s1.activeCourseId)
  IN IF SyncFires(s1)
     THEN /\ state'.library =
               [s1.library EXCEPT ![i] =
                  [@ EXCEPT !.lastAccessed = now,
                            !.completedSubLessons = s1.completedSubLessons,
                            !.subLessonFeedback = s1.subLessonFeedback,
                            !.curriculum = copied(@)]]
          /\ IF toStore
             THEN writes' = Append(writes, [op |-> "merge", id |-> s1.activeCourseId,
                                            course |-> state'.library[i]])
             ELSE writes' = writes
     ELSE /\ state'.library = s1.library
          /\ writes' = writes

\* The progress-sync effect ran in this turn, whatever it is expected to do.
ProgressSynced(Expected(_)) ==
  /\ \A index \in 0 .. (Len(GeneratedSubLessons) - 1) :
       toggleSubLesson(index) => Expected(OnToggleSubLesson(state, index))
  /\ \A index \in 0 .. (Len(GeneratedSubLessons) - 1), type \in FeedbackTypes :
       handleSubLessonFeedback(index, type) =>
         Expected(OnSubLessonFeedback(state, index, type))
  /\ (AudioResolve /\ SyncRuns(OnAudio(state, Base64Audio(audioCall)), FALSE)) =>
       Expected(OnAudio(state, Base64Audio(audioCall)))

\* C10 as stated: the sync updates the entry and issues a remote write
\* exactly when the change detector fires, copying the session's curriculum.
C10_SyncWritesWheneverDetectorFires ==
  [][ProgressSynced(LAMBDA s1 : SyncedAs(s1, TRUE, LAMBDA old : s1.curriculum))]_vars

\* C10: the sync updates the active course's entry exactly when the change
\* detector fires: lastAccessed becomes now, completedSubLessons and
\* subLessonFeedback are the session's, curriculum is the session's when it
\* has one; the remote write is issued then, provided a user is signed in
\* and a store is configured.  Otherwise library and store are untouched.
C10_SyncUpdatesEntryWhenDetectorFires ==
  [][/\ ProgressSynced(LAMBDA s1 :
          SyncedAs(s1, s1.user # Null /\ db,
                   LAMBDA old : IF s1.curriculum # Null THEN s1.curriculum ELSE old))
     /\ (toggleAudio \/ AudioResolve \/ AudioReject
           \/ (\E index \in 0 .. (Len(GeneratedSubLessons) - 1) : toggleSubLesson(index))
           \/ (\E index \in 0 .. (Len(GeneratedSubLessons) - 1), type \in FeedbackTypes :
                 handleSubLessonFeedback(index, type)))
          => remote' = remote]_vars

\* A completion was synced: the entry carries it, stamped now, and its
\* write is in flight.
C10_Witness ==
  /\ state.step = CURRICULUM
  /\ state.completedSubLessons # <<>>
  /\ writes # <<>>
  /\ writes[1].op = "merge"
  /\ writes[1].course.completedSubLessons = state.completedSubLessons
  /\ writes[1].course.lastAccessed = now
  /\ writes[1].course \in Range(state.library)

\* The progress of s refers to sub-lessons of its curriculum only.
ProgressWithinCurriculum(s) ==
  /\ \A k \in DOMAIN s.completedSubLessons :
       s.completedSubLessons[k] \in SubLessonIndices(s)
  /\ DOMAIN s.subLessonFeedback \subseteq SubLessonIndices(s)

WithoutTransients(s) ==
  [s EXCEPT !.isLoading = FALSE,
            !.error = NoError,
            !.chatHistory = SelectSeq(s.chatHistory, LAMBDA m : ~m.isThinking)]

\* The state a reload would start from: the snapshot over the defaults.
RestoredByReload ==
  [f \in DOMAIN INITIAL_STATE |->
     IF storage # Null /\ f \in DOMAIN storage THEN storage[f] ELSE INITIAL_STATE[f]]

\* C12 as claimed: at any moment, restoring the local snapshot reproduces the
\* current AppState field for field, except that isLoading is false, error is
\* null and the thinking messages are removed, fields missing from the
\* snapshot taking the INITIAL_STATE defaults.
C12_RestoreReproducesState == RestoredByReload = WithoutTransients(state)

\* C12, amended: the same, provided the snapshot of the current state did not
\* exceed the storage limit (else the write threw and an earlier snapshot is
\* what the reload finds).
C12_RestoreReproducesStoredState ==
  AudioBlobs(WithoutTransients(state)) <= StorageQuota =>
    RestoredByReload = WithoutTransients(state)

\* The page was reloaded while the tutor's reply was pending: the session is
\* in the curriculum with the user's message last and no placeholder, the
\* tutor session was rebuilt from the restored history, and the feedback
\* field the old snapshot lacked has its default.
C12_Witness ==
  /\ state.step = CURRICULUM
  /\ chatSession # Null
  /\ chatSession.history # <<>>
  /\ tutorCalls = 0
  /\ state.chatHistory[Len(state.chatHistory)].role = "user"
  /\ state.subLessonFeedback = EmptyFeedback
  /\ RestoredByReload = state

\* C13: at most one tutor exchange is in flight at a time: while the reply
\* to a sent chat message is pending the chat form accepts no other message.
C13_OneExchangeInFlight == tutorCalls <= 1

\* The texts of the errors the model call can end with.
RawErrors == {outcome.text : outcome \in {o \in ModelOutcomes : ~o.ok}}

\* C14: when the model call behind sendMessageToTutor fails, the reply is the
\* fixed fallback string: the step that applies it keeps every message but
\* the thinking placeholders (the user's message among them) and appends the
\* fallback as one model message.  No raw error text is ever in chatHistory.
C14_FailedReplyIsFallback ==
  /\ [](\A k \in DOMAIN state.chatHistory :
          \A e \in RawErrors : state.chatHistory[k].text # <<e>>)
  /\ [][\A outcome \in ModelOutcomes :
          (TutorSettled(outcome) /\ ~outcome.ok) =>
            LET kept == SelectSeq(state.chatHistory, LAMBDA m : ~m.isThinking)
                n == Len(state'.chatHistory)
            IN /\ n = Len(kept) + 1
               /\ SubSeq(state'.chatHistory, 1, n - 1) = kept
               /\ state'.chatHistory[n].role = "model"
               /\ state'.chatHistory[n].text = <<Fallback>>
               /\ ~state'.chatHistory[n].isThinking
               /\ \A k \in DOMAIN state'.chatHistory :
                    ~state'.chatHistory[k].isThinking]_vars

\* The user's message is followed by the fallback, and nothing is pending.
C14_Witness ==
  /\ tutorCalls = 0
  /\ \E k \in DOMAIN state.chatHistory :
       /\ k + 1 = Len(state.chatHistory)
       /\ state.chatHistory[k].role = "user"
       /\ state.chatHistory[k + 1].role = "model"
       /\ state.chatHistory[k + 1].text = <<Fallback>>

\* The state after toggleSubLesson(index) ran on s: its setState followed by
\* the progress sync, which a new completedSubLessons always triggers.
Toggled(s, index) == SyncLibrary(OnToggleSubLesson(s, index))

ToggledTwice(s, index) == Toggled(Toggled(s, index), index)

\* The completed indices of t are those of s, none listed twice.
SameCompletedSet(s, t) ==
  /\ Range(t.completedSubLessons) = Range(s.completedSubLessons)
  /\ \A j, k \in DOMAIN t.completedSubLessons :
       t.completedSubLessons[j] = t.completedSubLessons[k] => j = k

\* C15 as claimed: toggling a sub-lesson twice gives a completedSubLessons
\* with the same set of indices, without duplicates, and changes no other
\* field of the state.
C15_DoubleToggleChangesNothingElse ==
  CurriculumView =>
    \A i \in SubLessonIndices(state) :
      /\ SameCompletedSet(state, ToggledTwice(state, i))
      /\ \A f \in DOMAIN state \ {"completedSubLessons"} :
           ToggledTwice(state, i)[f] = state[f]

\* C15, amended: toggling a sub-lesson twice gives a completedSubLessons with
\* the same set of indices, without duplicates, and changes no other field of
\* the state but the library, where only the entry of the active course
\* changes: it takes the session's progress and curriculum and is stamped
\* with the current time.
C15_DoubleToggleTouchesActiveEntryOnly ==
  CurriculumView =>
    \A i \in SubLessonIndices(state) :
      LET t == ToggledTwice(state, i)
          active == FindIndex(state.library, state.activeCourseId)
      IN /\ SameCompletedSet(state, t)
         /\ \A f \in DOMAIN state \ {"completedSubLessons", "library"} : t[f] = state[f]
         /\ Len(t.library) = Len(state.library)
         /\ \A k \in DOMAIN state.library :
              IF state.activeCourseId # NoId /\ k = active
              THEN t.library[k] =
                     [state.library[k] EXCEPT
                        !.completedSubLessons = t.completedSubLessons,
                        !.subLessonFeedback = state.subLessonFeedback,
                        !.curriculum = state.curriculum,
                        !.lastAccessed = now]
              ELSE t.library[k] = state.library[k]

\* A lesson of the first course was marked complete and unmarked again: the
\* session's progress is empty as before, the entry carries a later stamp.
C15_Witness ==
  /\ state.step = CURRICULUM
  /\ state.completedSubLessons = <<>>
  /\ state.subLessonFeedback = EmptyFeedback
  /\ audioDataOf(state) = NoAudio
  /\ \E k \in DOMAIN state.library :
       /\ state.library[k].id = state.activeCourseId
       /\ state.library[k].completedSubLessons = <<>>
       /\ state.library[k].lastAccessed > state.library[k].createdAt

\* The state after handleSubLessonFeedback(index, type) ran on s: its
\* setState followed by the progress sync.
FeedbackGiven(s, index, type) == SyncLibrary(OnSubLessonFeedback(s, index, type))

\* C16: setting feedback for a sub-lesson overwrites: after 'helpful' and
\* then 'unhelpful' for index i, subLessonFeedback has one entry for i, with
\* value 'unhelpful', and the entries of all other indices are as before.
C16_FeedbackOverwrites ==
  CurriculumView =>
    \A i \in SubLessonIndices(state) :
      LET before == state.subLessonFeedback
          after == FeedbackGiven(FeedbackGiven(state, i, "helpful"), i, "unhelpful")
                     .subLessonFeedback
      IN /\ DOMAIN after = DOMAIN before \cup {i}
         /\ after[i] = "unhelpful"
         /\ \A j \in DOMAIN before \ {i} : after[j] = before[j]

\* The second lesson was rated helpful, which was synced to the library, and
\* then unhelpful; the first lesson's rating is still there.
C16_Witness ==
  /\ state.step = CURRICULUM
  /\ DOMAIN state.subLessonFeedback = {0, 1}
  /\ state.subLessonFeedback[1] = "unhelpful"
  /\ \E k \in DOMAIN state.library :
       /\ state.library[k].id = state.activeCourseId
       /\ 1 \in DOMAIN state.library[k].subLessonFeedback
       /\ state.library[k].subLessonFeedback[1] = "helpful"

\* C17: a curriculum's audioData is written at most once: when an audio
\* response arrives and the session's curriculum already has audioData, also
\* when the response belongs to another course, the audioData stays as it is.
C17_AudioWrittenOnce ==
  [][(AudioResolve /\ audioDataOf(state) # NoAudio) =>
       audioDataOf(state') = audioDataOf(state)]_vars

\* The unsigned little-endian numbers a parser of the container reads.
Uint16At(bytes, offset) == bytes[offset] + 256 * bytes[offset + 1]

Uint32At(bytes, offset) ==
  bytes[offset] + 256 * bytes[offset + 1] + 65536 * bytes[offset + 2]
    + 16777216 * bytes[offset + 3]

\* C18: for a PCM input of N bytes pcmToWav returns 44 + N bytes; the header
\* carries RIFF length 36 + N, format tag 1, the channel count and the sample
\* rate given, byte rate sampleRate * numChannels * 2, block align
\* numChannels * 2, bit depth 16 and data length N, and the N input bytes
\* follow unchanged and in order.
C18_WavHeaderAndData ==
  (call.op = "pcmToWav" /\ result.done) =>
    LET wav == result.value
        N == Len(call.pcm)
    IN /\ ~result.threw
       /\ DOMAIN wav = 0 .. (44 + N - 1)
       /\ \A i \in DOMAIN wav : wav[i] \in 0 .. 255
       /\ Uint32At(wav, 4) = 36 + N
       /\ Uint16At(wav, 20) = 1
       /\ Uint16At(wav, 22) = call.numChannels
       /\ Uint32At(wav, 24) = call.sampleRate
       /\ Uint32At(wav, 28) = call.sampleRate * call.numChannels * 2
       /\ Uint16At(wav, 32) = call.numChannels * 2
       /\ Uint16At(wav, 34) = 16
       /\ Uint32At(wav, 40) = N
       /\ \A i \in 1 .. N : wav[44 + i - 1] = call.pcm[i]

\* Three bytes of stereo PCM at 44100 Hz were encoded.
C18_Witness ==
  /\ call.op = "pcmToWav"
  /\ call.pcm = <<0, 100, 255>>
  /\ call.numChannels = 2
  /\ call.sampleRate = 44100
  /\ result.done
  /\ result.value[46] = 255

\* C19: generatePillars yields exactly 30 pillars whose ids are 1..30 in list
\* order, whatever ids the model's output carried.
C19_ThirtyPillarsNumberedInOrder ==
  (call.op = "generatePillars" /\ result.done /\ ~result.threw) =>
    /\ Len(result.value) = PillarCount
    /\ \A k \in DOMAIN result.value : result.value[k].id = k

\* C20: a generation call of the gateway either returns a result in which all
\* required fields are present or throws its 'Failed to generate ...' error;
\* a response that parses but lacks a required field is not returned.
C20_NoPartialResults ==
  result.done =>
    IF result.threw
    THEN result.message \in {PillarsError, PathsError, CurriculumError}
    ELSE CASE call.op = "generatePillars" ->
                \A k \in DOMAIN result.value : PillarFields \subseteq DOMAIN result.value[k]
           [] call.op = "generateLessonPaths" ->
                /\ result.value.type = "array"
                /\ \A k \in DOMAIN result.value.items :
                     PathFields \subseteq DOMAIN result.value.items[k]
           [] call.op = "generateCurriculum" ->
                /\ result.value.type = "object"
                /\ CurriculumFields \subseteq DOMAIN result.value.fields
           [] OTHER -> TRUE

\* The place of a step in the flow AUTH, DASHBOARD, INPUT, PILLARS, PATHS,
\* CURRICULUM.
StepRank(step) ==
  CASE step = AUTH -> 0 [] step = DASHBOARD -> 1 [] step = INPUT -> 2
    [] step = PILLARS -> 3 [] step = PATHS -> 4 [] step = CURRICULUM -> 5

\* The step moves to PILLARS, PATHS or CURRICULUM from an earlier step.
MovesForward ==
  /\ state'.step \in {PILLARS, PATHS, CURRICULUM}
  /\ StepRank(state'.step) > StepRank(state.step)

\* The turn applies the successful response of exactly one gateway call, the
\* one for the step reached, and that call is no longer pending.
AppliesOneGatewayCall ==
  \E r \in requests :
    /\ requests' = requests \ {r}
    /\ \/ PillarsResolve(r) /\ state'.step = PILLARS
       \/ PathsResolve(r) /\ state'.step = PATHS
       \/ CurriculumResolve(r) /\ state'.step = CURRICULUM

\* C21 as claimed: every transition that brings the step to PILLARS, PATHS
\* or CURRICULUM from an earlier step follows a state with isLoading = true
\* and exactly one call to the gateway made for that transition.
C21_ForwardOnlyThroughGateway ==
  [][MovesForward => AppliesOneGatewayCall]_vars

\* C21, amended: a transition that brings the step to PILLARS, PATHS or
\* CURRICULUM from an earlier step applies exactly one gateway call, issued
\* with isLoading set to true, unless it is the resume of a saved course
\* (DASHBOARD to CURRICULUM), the breadcrumb of the selected pillar (to
\* PILLARS) or a reload that restores a later step from the snapshot.
C21_ForwardThroughGatewayResumeOrBreadcrumb ==
  /\ [][MovesForward =>
          \/ AppliesOneGatewayCall
          \/ /\ \E c \in Range(state.library) : handleResumeCourse(c)
             /\ state.step = DASHBOARD /\ state'.step = CURRICULUM
             /\ requests' = requests
          \/ /\ BreadcrumbPillar
             /\ state'.step = PILLARS
             /\ requests' = requests
          \/ Reload]_vars
  /\ [][\A r \in requests' \ requests : state'.isLoading]_vars

\* The pillars of a new subject arrived and are shown.
C21_Witness ==
  /\ state.step = PILLARS
  /\ state.pillars = GeneratedPillars
  /\ state.subject \in Subjects
  /\ state.selectedPillar = Null
  /\ ~state.isLoading
  /\ requests = {}

\* C22: the backward transitions clear the data of the level being left:
\* after goBack from PATHS the step is PILLARS with paths empty, selectedPillar
\* null and selectedPath null; after goBack from PILLARS the step is INPUT with
\* pillars empty; after goBack from INPUT the step is DASHBOARD; goBack in AUTH
\* or DASHBOARD changes nothing.
C22_GoBackClearsLevelLeft ==
  /\ [][goBack =>
          /\ state.step = PATHS =>
               /\ state'.step = PILLARS
               /\ state'.paths = <<>>
               /\ state'.selectedPillar = Null
               /\ state'.selectedPath = Null
          /\ state.step = PILLARS =>
               /\ state'.step = INPUT
               /\ state'.pillars = <<>>]_vars
  /\ [](/\ state.step = INPUT => OnGoBack(state).step = DASHBOARD
        /\ state.step \in {AUTH, DASHBOARD} => OnGoBack(state) = state)

\* The real turns of a chat: no thinking placeholder, no synthetic greeting.
RealTurns(history) ==
  SelectSeq(history, LAMBDA m : ~m.isThinking /\ m.id \notin {"welcome", "resume"})

\* C23: when the user leaves a course with Back and resumes it, the chat
\* context handed to the tutor session contains the prior non-transient turns
\* of that course's conversation, while the visible chatHistory shows only
\* the 'welcome back' message.
C23_ResumeKeepsConversation ==
  \A c \in Range(state.library) :
    (CurriculumView /\ state.activeCourseId = c.id) =>
      /\ OnResumeCourse(OnGoBack(state), c).chatHistory = <<ResumeMessage(c)>>
      /\ \A turn \in Range(RealTurns(state.chatHistory)) :
           turn \in Range(ResumedChat(c).history)

\* C24: whenever the tutor session is initialized (path selection, resume,
\* restore after a reload in CURRICULUM) the history passed to it holds no
\* thinking placeholder and no synthetic greeting, neither the 'welcome' nor
\* the 'welcome back' message.
C24_ContextHasOnlyRealTurns ==
  chatSession # Null =>
    \A k \in DOMAIN chatSession.history :
      /\ ~chatSession.history[k].isThinking
      /\ chatSession.history[k].id # "welcome"
      /\ chatSession.history[k].id # "resume"

\* A successful pillars, paths or curriculum response sets the step of its
\* level whatever the step was, and a tutor reply ends the conversation shown.
GenerationAndChatResponsesApplied ==
  /\ \A r \in requests :
       /\ PillarsResolve(r) =>
            state'.step = PILLARS /\ state'.pillars = GeneratedPillars /\ ~state'.isLoading
       /\ PathsResolve(r) =>
            state'.step = PATHS /\ state'.paths = GeneratedPaths /\ ~state'.isLoading
       /\ CurriculumResolve(r) =>
            /\ state'.step = CURRICULUM /\ ~state'.isLoading
            /\ state'.curriculum = GeneratedCurriculum(r.path)
  /\ \A outcome \in ModelOutcomes :
       TutorSettled(outcome) =>
         /\ state'.chatHistory # <<>>
         /\ state'.chatHistory[Len(state'.chatHistory)].role = "model"
         /\ state'.chatHistory[Len(state'.chatHistory)].text = <<sendMessageToTutor(outcome)>>

\* C25 as stated: a response that arrives after the user left the step where
\* it was requested is still applied to the then-current state; this includes
\* the audio response, which becomes the overview of the session's curriculum.
C25_EveryResponseApplied ==
  [][/\ GenerationAndChatResponsesApplied
     /\ AudioResolve =>
          /\ state'.curriculum # Null
          /\ state'.curriculum.audioData = Base64Audio(audioCall)]_vars

\* C25: generation and chat responses are applied whatever the step is; an
\* audio response always creates the player, becomes the overview of the
\* curriculum the session has then, and leaves the session as it is when it
\* has none; between page loads a request in flight is only ever removed by
\* its own response.
C25_ResponsesAppliedAudioNeedsCurriculum ==
  [][/\ GenerationAndChatResponsesApplied
     /\ AudioResolve =>
          /\ audioRef'
          /\ state.curriculum # Null =>
               state'.curriculum.audioData = Base64Audio(audioCall)
          /\ state.curriculum = Null => state' = state
     /\ (~(requests \subseteq requests') /\ ~Reload) =>
          \E r \in requests :
            /\ requests' = requests \ {r}
            /\ \/ PillarsResolve(r) \/ PillarsReject(r)
               \/ PathsResolve(r) \/ PathsReject(r)
               \/ CurriculumResolve(r) \/ CurriculumReject(r)]_vars

\* The audio overview requested in a course arrived on the dashboard: the
\* player exists although the session has no curriculum.
C25_Witness ==
  /\ state.step = DASHBOARD
  /\ state.curriculum = Null
  /\ audioRef
  /\ ~isLoadingAudio

\* C26: selecting a path while the session has no selected pillar issues no
\* gateway call, creates no SavedCourse, leaves step and library unchanged and
\* ends with isLoading false and error 'Pillar not selected'.
C26_PathWithoutPillarFailsLocally ==
  [][\A path \in Range(state.paths) :
       (handlePathSelect(path) /\ state.selectedPillar = Null) =>
         /\ requests' = requests
         /\ writes' = writes
         /\ state'.library = state.library
         /\ state'.activeCourseId = state.activeCourseId
         /\ state'.step = state.step
         /\ ~state'.isLoading
         /\ state'.error = PillarNotSelected]_vars

\* A path was clicked in a paths view whose pillar selection had been cleared.
C26_Witness ==
  /\ state.step = PATHS
  /\ state.selectedPillar = Null
  /\ state.selectedPath \in Range(state.paths)
  /\ state.error = PillarNotSelected
  /\ ~state.isLoading

C28_ActiveCourseInLibrary ==
  state.activeCourseId # NoId =>
    \E k \in DOMAIN state.library : state.library[k].id = state.activeCourseId

\* C29: in every reachable state with step = CURRICULUM, curriculum,
\* selectedPillar and selectedPath are all non-null.
C29_CurriculumStepHasSelection ==
  state.step = CURRICULUM =>
    /\ state.curriculum # Null
    /\ state.selectedPillar # Null
    /\ state.selectedPath # Null

\* C30: whenever a content-generation request (pillars, paths or curriculum)
\* is in flight isLoading is true, and at most one such request is in flight
\* at any time.
C30_OneRequestWhileLoading ==
  /\ requests # {} => state.isLoading
  /\ Cardinality(requests) <= 1

====
